---- MODULE Spec2Model ----
(***************************************************************************)
(* Visit Value Index (VVI): the scoring and classification engine of       *)
(* src/app.py (VVIAPIClient, the local computation) and of                 *)
(* src/vvi-api/main.py (VVICalculator and the /v1/vvi/assess handler).     *)
(*                                                                         *)
(* Numbers.  Python floats are modelled as exact rationals <<n, d>> with   *)
(* d > 0 in lowest terms.  round(x, k) is modelled by what it does: it     *)
(* yields the nearest multiple of 10^-k, ties to the even one, and the     *)
(* model keeps that multiple as a rational again.  Reported values are     *)
(* therefore rationals whose denominator divides 10^k.                     *)
(* The calculated_at timestamp of a result is not modelled.                *)
(***************************************************************************)
EXTENDS Integers, Sequences, FiniteSets, TLC

VARIABLES
    request,            \* arguments of the call under way
    api_url, api_key,   \* VVIAPIClient configuration ("" = not configured)
    use_api,            \* VVIAPIClient.use_api
    scenario_library,   \* content table of _assess_local
    SCENARIO_LIBRARY,   \* content table of the API process
    localRes,           \* outcome of the last _assess_local call on request
    apiResp,            \* HTTP response of the last request to the API
    clientRes,          \* outcome of the last VVIAPIClient.assess call
    tierOut,            \* outcome of the last direct call of the tier functions
    memo,               \* an earlier call, remembered with its outcome
    session_state,      \* st.session_state of one browser session of app.py
    page                \* what the last script run of that session showed

vars == <<request, api_url, api_key, use_api, scenario_library,
          SCENARIO_LIBRARY, localRes, apiResp, clientRes, tierOut, memo,
          session_state, page>>

----------------------------------------------------------------------------
(* Exact rational arithmetic                                               *)

Abs(x) == IF x < 0 THEN -x ELSE x

RECURSIVE Gcd(_, _)
Gcd(a, b) == IF b = 0 THEN a ELSE Gcd(b, a % b)

\* n/d in lowest terms with a positive denominator (d # 0)
Rat(n, d) ==
    LET g == Gcd(Abs(n), Abs(d))
        s == IF d < 0 THEN -1 ELSE 1
    IN  <<(s * n) \div g, (s * d) \div g>>

RInt(n) == <<n, 1>>

RIsZero(x) == x[1] = 0

\* x * y, cross-reducing first so that intermediate products stay small
RMul(x, y) ==
    LET g1 == Gcd(Abs(x[1]), y[2])
        g2 == Gcd(Abs(y[1]), x[2])
    IN  <<(x[1] \div g1) * (y[1] \div g2), (x[2] \div g2) * (y[2] \div g1)>>

\* x / y  (y # 0)
RDiv(x, y) == RMul(x, Rat(y[2], y[1]))

RGeq(x, c) == x[1] >= c * x[2]
RLt(x, c) == x[1] < c * x[2]

Pow10(k) == IF k = 0 THEN 1 ELSE IF k = 1 THEN 10 ELSE 100

\* Python's round(x, ndigits): the nearest multiple of 10^-ndigits, ties to even
round_py_floor(x, ndigits) ==
    LET n == x[1] * Pow10(ndigits)
    IN  Rat(n \div x[2], Pow10(ndigits))

round_py(x, ndigits) ==
    LET n == x[1] * Pow10(ndigits)
        d == x[2]
        q == n \div d
        r == n % d
        m == IF 2 * r < d THEN q
             ELSE IF 2 * r > d THEN q + 1
             ELSE IF q % 2 = 0 THEN q ELSE q + 1
    IN  Rat(m, Pow10(ndigits))

----------------------------------------------------------------------------
(* Tiers and the scenario grid                                             *)

Tiers == {"Excellent", "Stable", "At Risk", "Critical"}

ScenarioIds == {"S01", "S02", "S03", "S04", "S05", "S06", "S07", "S08",
                "S09", "S10", "S11", "S12", "S13", "S14", "S15", "S16"}

\* the step function with its lower thresholds left out of their tiers
tier_from_score_strict(score) ==
    IF score[1] > 100 * score[2] THEN "Excellent"
    ELSE IF score[1] > 95 * score[2] /\ RLt(score, 100) THEN "Stable"
    ELSE IF score[1] > 90 * score[2] /\ RLt(score, 95) THEN "At Risk"
    ELSE "Critical"

\* app.py: tier_from_score, nested in _assess_local, applied to unrounded scores
tier_from_score(score) ==
    IF RGeq(score, 100) THEN "Excellent"
    ELSE IF RGeq(score, 95) /\ RLt(score, 100) THEN "Stable"
    ELSE IF RGeq(score, 90) /\ RLt(score, 95) THEN "At Risk"
    ELSE "Critical"

\* main.py: VVICalculator.determine_tier
determine_tier(score) ==
    IF RGeq(score, 100) THEN "Excellent"
    ELSE IF RGeq(score, 95) THEN "Stable"
    ELSE IF RGeq(score, 90) THEN "At Risk"
    ELSE "Critical"

\* scenario_map with the values of two neighbouring keys exchanged (S07, S08)
scenario_map_swapped(rf_tier, lf_tier) ==
    CASE rf_tier = "Excellent" /\ lf_tier = "Excellent" -> "S01"
      [] rf_tier = "Excellent" /\ lf_tier = "Stable" -> "S02"
      [] rf_tier = "Excellent" /\ lf_tier = "At Risk" -> "S03"
      [] rf_tier = "Excellent" /\ lf_tier = "Critical" -> "S04"
      [] rf_tier = "Stable" /\ lf_tier = "Excellent" -> "S05"
      [] rf_tier = "Stable" /\ lf_tier = "Stable" -> "S06"
      [] rf_tier = "Stable" /\ lf_tier = "At Risk" -> "S08"
      [] rf_tier = "Stable" /\ lf_tier = "Critical" -> "S07"
      [] rf_tier = "At Risk" /\ lf_tier = "Excellent" -> "S09"
      [] rf_tier = "At Risk" /\ lf_tier = "Stable" -> "S10"
      [] rf_tier = "At Risk" /\ lf_tier = "At Risk" -> "S11"
      [] rf_tier = "At Risk" /\ lf_tier = "Critical" -> "S12"
      [] rf_tier = "Critical" /\ lf_tier = "Excellent" -> "S13"
      [] rf_tier = "Critical" /\ lf_tier = "Stable" -> "S14"
      [] rf_tier = "Critical" /\ lf_tier = "At Risk" -> "S15"
      [] rf_tier = "Critical" /\ lf_tier = "Critical" -> "S16"
      [] OTHER -> "S16"

\* app.py: scenario_map.get((rf_tier, lf_tier), "S16") in _assess_local
scenario_map(rf_tier, lf_tier) ==
    CASE rf_tier = "Excellent" /\ lf_tier = "Excellent" -> "S01"
      [] rf_tier = "Excellent" /\ lf_tier = "Stable" -> "S02"
      [] rf_tier = "Excellent" /\ lf_tier = "At Risk" -> "S03"
      [] rf_tier = "Excellent" /\ lf_tier = "Critical" -> "S04"
      [] rf_tier = "Stable" /\ lf_tier = "Excellent" -> "S05"
      [] rf_tier = "Stable" /\ lf_tier = "Stable" -> "S06"
      [] rf_tier = "Stable" /\ lf_tier = "At Risk" -> "S07"
      [] rf_tier = "Stable" /\ lf_tier = "Critical" -> "S08"
      [] rf_tier = "At Risk" /\ lf_tier = "Excellent" -> "S09"
      [] rf_tier = "At Risk" /\ lf_tier = "Stable" -> "S10"
      [] rf_tier = "At Risk" /\ lf_tier = "At Risk" -> "S11"
      [] rf_tier = "At Risk" /\ lf_tier = "Critical" -> "S12"
      [] rf_tier = "Critical" /\ lf_tier = "Excellent" -> "S13"
      [] rf_tier = "Critical" /\ lf_tier = "Stable" -> "S14"
      [] rf_tier = "Critical" /\ lf_tier = "At Risk" -> "S15"
      [] rf_tier = "Critical" /\ lf_tier = "Critical" -> "S16"
      [] OTHER -> "S16"

\* main.py: VVICalculator.get_scenario_id, scenario_map.get(..., "S16")
get_scenario_id(rf_tier, lf_tier) ==
    CASE rf_tier = "Excellent" /\ lf_tier = "Excellent" -> "S01"
      [] rf_tier = "Excellent" /\ lf_tier = "Stable" -> "S02"
      [] rf_tier = "Excellent" /\ lf_tier = "At Risk" -> "S03"
      [] rf_tier = "Excellent" /\ lf_tier = "Critical" -> "S04"
      [] rf_tier = "Stable" /\ lf_tier = "Excellent" -> "S05"
      [] rf_tier = "Stable" /\ lf_tier = "Stable" -> "S06"
      [] rf_tier = "Stable" /\ lf_tier = "At Risk" -> "S07"
      [] rf_tier = "Stable" /\ lf_tier = "Critical" -> "S08"
      [] rf_tier = "At Risk" /\ lf_tier = "Excellent" -> "S09"
      [] rf_tier = "At Risk" /\ lf_tier = "Stable" -> "S10"
      [] rf_tier = "At Risk" /\ lf_tier = "At Risk" -> "S11"
      [] rf_tier = "At Risk" /\ lf_tier = "Critical" -> "S12"
      [] rf_tier = "Critical" /\ lf_tier = "Excellent" -> "S13"
      [] rf_tier = "Critical" /\ lf_tier = "Stable" -> "S14"
      [] rf_tier = "Critical" /\ lf_tier = "At Risk" -> "S15"
      [] rf_tier = "Critical" /\ lf_tier = "Critical" -> "S16"
      [] OTHER -> "S16"

----------------------------------------------------------------------------
(* Content tables.  A record keeps name and risk_level as they are in the  *)
(* source; content names the record whose focus_areas, actions,            *)
(* expected_impact (and narrative, root causes) texts it carries.          *)

ScenarioRecord(name, risk_level, content) ==
    [name |-> name, risk_level |-> risk_level, content |-> content]

\* a table cut down to its first and last record
LocalLibrary_truncated ==
    [id \in {"S01", "S16"} |->
        IF id = "S01"
        THEN ScenarioRecord("Excellent Revenue / Excellent Labor", "Low", "local/S01")
        ELSE ScenarioRecord("Critical Revenue / Critical Labor", "Critical", "local/S16")]

\* app.py: the scenario_library literal of _assess_local, S01..S16
LocalLibrary ==
    [id \in ScenarioIds |->
        CASE id = "S01" -> ScenarioRecord("Excellent Revenue / Excellent Labor", "Low", "local/S01")
          [] id = "S02" -> ScenarioRecord("Excellent Revenue / Stable Labor", "Low", "local/S02")
          [] id = "S03" -> ScenarioRecord("Excellent Revenue / At Risk Labor", "Medium", "local/S03")
          [] id = "S04" -> ScenarioRecord("Excellent Revenue / Critical Labor", "High", "local/S04")
          [] id = "S05" -> ScenarioRecord("Stable Revenue / Excellent Labor", "Low", "local/S05")
          [] id = "S06" -> ScenarioRecord("Stable Revenue / Stable Labor", "Low", "local/S06")
          [] id = "S07" -> ScenarioRecord("Stable Revenue / At Risk Labor", "Medium", "local/S07")
          [] id = "S08" -> ScenarioRecord("Stable Revenue / Critical Labor", "High", "local/S08")
          [] id = "S09" -> ScenarioRecord("At Risk Revenue / Excellent Labor", "Medium", "local/S09")
          [] id = "S10" -> ScenarioRecord("At Risk Revenue / Stable Labor", "Medium", "local/S10")
          [] id = "S11" -> ScenarioRecord("At Risk Revenue / At Risk Labor", "High", "local/S11")
          [] id = "S12" -> ScenarioRecord("At Risk Revenue / Critical Labor", "Critical", "local/S12")
          [] id = "S13" -> ScenarioRecord("Critical Revenue / Excellent Labor", "High", "local/S13")
          [] id = "S14" -> ScenarioRecord("Critical Revenue / Stable Labor", "High", "local/S14")
          [] id = "S15" -> ScenarioRecord("Critical Revenue / At Risk Labor", "Critical", "local/S15")
          [] id = "S16" -> ScenarioRecord("Critical Revenue / Critical Labor", "Critical", "local/S16")]

\* main.py: SCENARIO_LIBRARY, which holds S01 and S16 only
ApiLibrary ==
    [id \in {"S01", "S16"} |->
        IF id = "S01"
        THEN ScenarioRecord("Excellent Revenue / Excellent Labor", "Low", "api/S01")
        ELSE ScenarioRecord("Critical Revenue / Critical Labor", "Critical", "api/S16")]

----------------------------------------------------------------------------
(* Outcomes of a call                                                      *)

Raise(exc) == [kind |-> "error", error |-> exc]
Return(result) == [kind |-> "ok", result |-> result]
NotCalled == [kind |-> "none"]

----------------------------------------------------------------------------
(* app.py: VVIAPIClient._assess_local                                      *)

\* the lookup at the end of _assess_local: scenario_library.get(scenario_id),
\* "if not scenario_data: raise ValueError"
local_lookup(library, scenario_id) ==
    IF scenario_id \in DOMAIN library
    THEN Return(library[scenario_id])
    ELSE Raise("ValueError")

\* "Calculate metrics": nrpv, lcv, swb_pct, unrounded
LocalMetrics(req) ==
    [nrpv |-> Rat(req.net_revenue, req.visit_volume),
     lcv |-> Rat(req.labor_cost, req.visit_volume),
     swb_pct |-> RMul(Rat(req.labor_cost, req.net_revenue), RInt(100))]

\* scores whose vvi is not set against the ratio of the targets
LocalScores_unnormalised(req, m) ==
    [rf |-> RMul(RDiv(m.nrpv, RInt(req.nrpv_target)), RInt(100)),
     lf |-> RMul(RDiv(RInt(req.lcv_target), m.lcv), RInt(100)),
     vvi |-> RMul(RDiv(m.nrpv, m.lcv), RInt(100))]

\* "Calculate scores": rf_score, lf_score, vvi_score, unrounded
LocalScores(req, m) ==
    LET rf_raw == RDiv(m.nrpv, RInt(req.nrpv_target))
        lf_raw == RDiv(RInt(req.lcv_target), m.lcv)
        vvi_raw == RDiv(m.nrpv, m.lcv)
        vvi_target == Rat(req.nrpv_target, req.lcv_target)
    IN  [rf |-> RMul(rf_raw, RInt(100)),
         lf |-> RMul(lf_raw, RInt(100)),
         vvi |-> RMul(RDiv(vvi_raw, vvi_target), RInt(100))]

\* "Determine tiers": the three tiers, of the unrounded scores
LocalTiers(s) ==
    [vvi |-> tier_from_score(s.vvi),
     rf |-> tier_from_score(s.rf),
     lf |-> tier_from_score(s.lf)]

\* the dict _assess_local returns
LocalResult(m, s, t, scenario_id, scenario_data) ==
    [metrics |-> [nrpv |-> round_py(m.nrpv, 2),
                  lcv |-> round_py(m.lcv, 2),
                  swb_pct |-> round_py(m.swb_pct, 1)],
     scores |-> [vvi |-> round_py(s.vvi, 1),
                 rf |-> round_py(s.rf, 1),
                 lf |-> round_py(s.lf, 1)],
     tiers |-> t,
     scenario |-> [id |-> scenario_id,
                   name |-> scenario_data.name,
                   risk_level |-> scenario_data.risk_level,
                   focus_areas |-> scenario_data.content],
     actions |-> scenario_data.content,
     expected_impact |-> scenario_data.content,
     source |-> "local"]

\* "if not scenario_data: raise ValueError(...)", else the return
LocalReturn(m, s, t, scenario_id, found) ==
    IF found.kind = "error" THEN found
    ELSE Return(LocalResult(m, s, t, scenario_id, found.result))

\* "Get scenario details"
LocalFromScenario(library, m, s, t, scenario_id) ==
    LocalReturn(m, s, t, scenario_id, local_lookup(library, scenario_id))

\* a selection that looks at the vvi tier first
LocalFromTiers_byVvi(library, m, s, t) ==
    LocalFromScenario(library, m, s, t,
                      IF t.vvi = "Excellent" THEN "S01"
                      ELSE scenario_map(t.rf, t.lf))

\* "Get scenario ID"
LocalFromTiers(library, m, s, t) ==
    LocalFromScenario(library, m, s, t, scenario_map(t.rf, t.lf))

LocalFromScores(library, m, s) == LocalFromTiers(library, m, s, LocalTiers(s))

LocalFromMetrics(req, library, m) ==
    LocalFromScores(library, m, LocalScores(req, m))

\* _assess_local: the float divisions in the order the code makes them, each
\* raising ZeroDivisionError on a zero divisor, then the stages above
_assess_local(req, library) ==
    IF req.visit_volume = 0 THEN Raise("ZeroDivisionError")
    ELSE IF req.net_revenue = 0 THEN Raise("ZeroDivisionError")
    ELSE IF req.nrpv_target = 0 THEN Raise("ZeroDivisionError")
    ELSE IF req.labor_cost = 0 THEN Raise("ZeroDivisionError")
    ELSE IF req.lcv_target = 0 THEN Raise("ZeroDivisionError")
    ELSE LocalFromMetrics(req, library, LocalMetrics(req))

----------------------------------------------------------------------------
(* main.py: VVICalculator and the POST /v1/vvi/assess endpoint             *)

\* VVICalculator.calculate_metrics
calculate_metrics(net_revenue, visit_volume, labor_cost) ==
    IF visit_volume = 0 THEN Raise("ZeroDivisionError")
    ELSE IF net_revenue = 0 THEN Raise("ZeroDivisionError")
    ELSE
    LET nrpv == Rat(net_revenue, visit_volume)
        lcv == Rat(labor_cost, visit_volume)
        swb_pct == RMul(Rat(labor_cost, net_revenue), RInt(100))
    IN  Return([nrpv |-> round_py(nrpv, 2),
                lcv |-> round_py(lcv, 2),
                swb_pct |-> round_py(swb_pct, 1)])

\* VVICalculator.calculate_scores up to its return: rf_score, lf_score and
\* vvi_score; nrpv and lcv are rationals, the targets integers
calculate_scores_unrounded(nrpv, lcv, nrpv_target, lcv_target) ==
    LET rf_raw == IF nrpv_target > 0 THEN RDiv(nrpv, RInt(nrpv_target)) ELSE RInt(0)
        lf_raw == IF lcv[1] > 0 THEN RDiv(RInt(lcv_target), lcv) ELSE RInt(0)
        rf_score == RMul(rf_raw, RInt(100))
        lf_score == RMul(lf_raw, RInt(100))
        vvi_raw == IF lcv[1] > 0 THEN RDiv(nrpv, lcv) ELSE RInt(0)
        vvi_target == IF lcv_target > 0 THEN Rat(nrpv_target, lcv_target)
                      ELSE Rat(167, 100)
    IN  IF RIsZero(vvi_target) THEN Raise("ZeroDivisionError")
        ELSE Return([vvi |-> RMul(RDiv(vvi_raw, vvi_target), RInt(100)),
                     rf |-> rf_score,
                     lf |-> lf_score])

\* the return of calculate_scores: each score rounded to 1 decimal place
RoundScores(scores) ==
    IF scores.kind = "error" THEN scores
    ELSE Return([vvi |-> round_py(scores.result.vvi, 1),
                 rf |-> round_py(scores.result.rf, 1),
                 lf |-> round_py(scores.result.lf, 1)])

\* VVICalculator.calculate_scores
calculate_scores(nrpv, lcv, nrpv_target, lcv_target) ==
    RoundScores(calculate_scores_unrounded(nrpv, lcv, nrpv_target, lcv_target))

\* os.getenv("API_KEYS", "demo_key_12345").split(",")
valid_keys == {"demo_key_12345"}

\* verify_api_key: TRUE when the key passes, otherwise HTTPException(401)
verify_api_key(x_api_key) == x_api_key \in valid_keys

\* pydantic: Metrics and Benchmarks, every field Field(..., gt=0)
RequestValid(req) ==
    /\ req.net_revenue > 0
    /\ req.visit_volume > 0
    /\ req.labor_cost > 0
    /\ req.nrpv_target > 0
    /\ req.lcv_target > 0

\* a value of "options: Optional[Dict[str, bool]]": a dict, or None for null
Dict(items) == [is_none |-> FALSE, items |-> items]
PyNone == [is_none |-> TRUE]

\* AssessmentRequest.options: the default dict, used when the body has no options
DefaultOptions == Dict([include_actions |-> TRUE, include_trends |-> FALSE])

\* request.options.get("include_actions", True), options a dict
IncludeActions(options) ==
    IF "include_actions" \in DOMAIN options.items
    THEN options.items["include_actions"] ELSE TRUE

\* http_exception_handler: the response made of a raised HTTPException
HttpError(status_code, detail) ==
    [status |-> status_code,
     body |-> [error |-> detail, status_code |-> status_code,
               timestamp |-> "utcnow"]]

\* the response FastAPI makes of a body that fails the pydantic models: a
\* RequestValidationError is no HTTPException and does not reach the handler
ValidationError ==
    [status |-> 422, body |-> [detail |-> "validation"]]

\* SCENARIO_LIBRARY.get(scenario_id, SCENARIO_LIBRARY["S16"])
api_lookup(library, scenario_id) ==
    IF scenario_id \in DOMAIN library THEN library[scenario_id] ELSE library["S16"]

\* "Step 5: Build response", with the actions when the options ask for them
ApiResponse(options, calc_metrics, scores, t, scenario_id, scenario_data) ==
    [status |-> 200,
     body |-> [
        metrics |-> calc_metrics,
        scores |-> scores,
        tiers |-> t,
        scenario |-> [id |-> scenario_id,
                      name |-> scenario_data.name,
                      risk_level |-> scenario_data.risk_level,
                      focus_areas |-> scenario_data.content],
        actions |-> IF IncludeActions(options) THEN scenario_data.content
                    ELSE "None",
        expected_impact |-> IF IncludeActions(options) THEN scenario_data.content
                            ELSE "None"]]

\* "Step 3: Determine tiers", of the rounded scores
ApiTiers(scores) ==
    [vvi |-> determine_tier(scores.vvi),
     rf |-> determine_tier(scores.rf),
     lf |-> determine_tier(scores.lf)]

\* "Step 4: Get scenario"; request.options.get raises AttributeError on None,
\* after the response was built, and the except clause makes it a 500
ApiFromScenario(options, library, calc_metrics, scores, t, scenario_id) ==
    IF options.is_none
    THEN HttpError(500, "AttributeError")
    ELSE ApiResponse(options, calc_metrics, scores, t, scenario_id,
                     api_lookup(library, scenario_id))

ApiFromTiers(options, library, calc_metrics, scores, t) ==
    ApiFromScenario(options, library, calc_metrics, scores, t,
                    get_scenario_id(t.rf, t.lf))

ApiFromScores(options, library, calc_metrics, scores) ==
    IF scores.kind = "error" THEN HttpError(500, scores.error)
    ELSE ApiFromTiers(options, library, calc_metrics, scores.result,
                      ApiTiers(scores.result))

\* "Step 2: Calculate scores", from the rounded metrics
ApiFromMetrics(req, options, library, calc_metrics) ==
    IF calc_metrics.kind = "error" THEN HttpError(500, calc_metrics.error)
    ELSE ApiFromScores(options, library, calc_metrics.result,
                       calculate_scores(calc_metrics.result.nrpv,
                                        calc_metrics.result.lcv,
                                        req.nrpv_target, req.lcv_target))

\* the body of assess_vvi: try ... except Exception -> HTTPException(500)
assess_vvi(req, options, library) ==
    ApiFromMetrics(req, options, library,
                   calculate_metrics(req.net_revenue, req.visit_volume,
                                     req.labor_cost))

\* a handler that takes the texts out of the shared record it looked up
\* (scenario_data.pop(...) on the dict the table holds)
LibraryAfterAssess_popping(req, library) ==
    IF ~RequestValid(req) THEN library
    ELSE IF assess_vvi(req, DefaultOptions, library).body.scenario.id \in DOMAIN library
    THEN [library EXCEPT
            ![assess_vvi(req, DefaultOptions, library).body.scenario.id].content = "None"]
    ELSE [library EXCEPT !["S16"].content = "None"]

\* a handler that fills the table in on a miss
\* (SCENARIO_LIBRARY.setdefault(scenario_id, SCENARIO_LIBRARY["S16"]))
LibraryAfterAssess_setdefault(req, library) ==
    IF ~RequestValid(req) THEN library
    ELSE library @@
         (assess_vvi(req, DefaultOptions, library).body.scenario.id :> library["S16"])

\* what assess_vvi leaves in SCENARIO_LIBRARY: it only reads the table
LibraryAfterAssess(req, library) == library

\* an endpoint that parses the body before it looks at the key
post_assess_validating_first(x_api_key, req, options, library) ==
    IF ~RequestValid(req) THEN ValidationError
    ELSE IF ~verify_api_key(x_api_key) THEN HttpError(401, "Invalid API key")
    ELSE assess_vvi(req, options, library)

\* one POST /v1/vvi/assess: the key dependency, then body validation, then
\* the handler
post_assess(x_api_key, req, options, library) ==
    IF ~verify_api_key(x_api_key) THEN HttpError(401, "Invalid API key")
    ELSE IF ~RequestValid(req) THEN ValidationError
    ELSE assess_vvi(req, options, library)

\* the scenario ids in the order of the dict literals
IdOrder == <<"S01", "S02", "S03", "S04", "S05", "S06", "S07", "S08",
             "S09", "S10", "S11", "S12", "S13", "S14", "S15", "S16">>

\* the handler of GET /v1/vvi/scenario/{scenario_id}
get_scenario(scenario_id, library) ==
    IF scenario_id \notin DOMAIN library
    THEN HttpError(404, "Scenario not found")
    ELSE [status |-> 200,
          body |-> [scenario_id |-> scenario_id] @@ library[scenario_id]]

\* the handler of GET /v1/vvi/scenarios
list_scenarios(library) ==
    [status |-> 200,
     body |-> [total_scenarios |-> Cardinality(DOMAIN library),
               scenarios |->
                  [i \in 1 .. Len(SelectSeq(IdOrder, LAMBDA sid : sid \in DOMAIN library)) |->
                     [id |-> SelectSeq(IdOrder, LAMBDA sid : sid \in DOMAIN library)[i],
                      name |-> library[SelectSeq(IdOrder, LAMBDA sid : sid \in DOMAIN library)[i]].name,
                      risk_level |-> library[SelectSeq(IdOrder, LAMBDA sid : sid \in DOMAIN library)[i]].risk_level]]]]

\* one GET /v1/vvi/scenario/{scenario_id}: the key dependency, then the handler
get_scenario_request(x_api_key, scenario_id, library) ==
    IF ~verify_api_key(x_api_key) THEN HttpError(401, "Invalid API key")
    ELSE get_scenario(scenario_id, library)

\* one GET /v1/vvi/scenarios: the key dependency, then the handler
list_scenarios_request(x_api_key, library) ==
    IF ~verify_api_key(x_api_key) THEN HttpError(401, "Invalid API key")
    ELSE list_scenarios(library)

----------------------------------------------------------------------------
(* app.py: VVIAPIClient                                                    *)

\* a remote result handed on as the service sent it, without a source
ApiResult_untagged(response) ==
    IF response.status >= 400 THEN Raise("HTTPError")
    ELSE Return(response.body)

\* response.raise_for_status(); result = response.json(); result["source"] = "api"
ApiResult(response) ==
    IF response.status >= 400 THEN Raise("HTTPError")
    ELSE Return([source |-> "api"] @@ response.body)

\* _assess_via_api: requests.post(..., timeout=30), then the lines above
_assess_via_api(req, key, fault, library) ==
    IF fault # "none" THEN Raise(fault)
    ELSE ApiResult(post_assess(key, req, Dict([include_actions |-> TRUE]), library))

\* assess without the except branch: the remote failure reaches the caller
AssessWithApi_propagating(req, remote) ==
    [outcome |-> remote, calls |-> <<"api">>]

\* an except branch that tries the remote call once more before it falls back
AssessWithApi_retrying(req, remote) ==
    IF remote.kind = "ok"
    THEN [outcome |-> remote, calls |-> <<"api">>]
    ELSE [outcome |-> _assess_local(req, scenario_library),
          calls |-> <<"api", "api", "local">>]

\* the try/except of assess: the result of the remote call, or the local
\* computation when it raised.  calls lists the computations made.
AssessWithApi(req, remote) ==
    IF remote.kind = "ok"
    THEN [outcome |-> remote, calls |-> <<"api">>]
    ELSE [outcome |-> _assess_local(req, scenario_library),
          calls |-> <<"api", "local">>]

\* VVIAPIClient.assess
assess(req, fault) ==
    IF use_api
    THEN AssessWithApi(req, _assess_via_api(req, api_key, fault, SCENARIO_LIBRARY))
    ELSE [outcome |-> _assess_local(req, scenario_library),
          calls |-> <<"local">>]

----------------------------------------------------------------------------
(* Inputs                                                                  *)

MaxVisits == 3
ProbeSpan == 600

\* dollars; 0 is the value a caller must not pass
NetRevenues == {0, 85, 92, 97, 100, 110, 24990}
VisitVolumes == (0 .. MaxVisits) \cup {250}
LaborCosts == {0, 1, 100, 103, 108, 120}
\* <<nrpv_target, lcv_target>>
TargetPairs ==
    {<<100, 100>>, <<140, 85>>, <<-100, 100>>, <<100, -100>>, <<0, 100>>, <<100, 0>>}

Request(nr, vv, lc, t) ==
    [net_revenue |-> nr, visit_volume |-> vv, labor_cost |-> lc,
     nrpv_target |-> t[1], lcv_target |-> t[2]]

Inputs ==
    {Request(nr, vv, lc, t) :
        nr \in NetRevenues, vv \in VisitVolumes, lc \in LaborCosts, t \in TargetPairs}

\* the calls followed when two calls of one input are compared
HistInputs ==
    {r \in Inputs : /\ r.visit_volume = 1
                    /\ r.nrpv_target = 100 /\ r.lcv_target = 100
                    /\ r.net_revenue \in {85, 92, 97, 100, 110}
                    /\ r.labor_cost \in {100, 103, 108, 120}}

\* X-API-Key values: none, the configured key, a key the server does not know
Keys == {"", "demo_key_12345", "stale_key"}
Urls == {"", "https://vvi.example"}

\* what the transport does to one requests.post
Faults == {"none", "ConnectionError", "Timeout"}

\* a request body without options
OptionChoices == {DefaultOptions}

\* the values the options field accepts: absent, dicts with and without
\* include_actions, and null
OptionValues ==
    {DefaultOptions,
     Dict([include_actions |-> TRUE]),
     Dict([include_actions |-> FALSE]),
     Dict([include_trends |-> TRUE]),
     Dict([k \in {} |-> TRUE]),
     PyNone}

\* the {scenario_id} path values: in the API table, one of the sixteen ids
\* that is not in it, and no scenario id at all
PathIds == {"S01", "S16", "S04", "S99"}

\* scores handed to the tier functions directly, in hundredths
ProbeScores == {Rat(n, 100) : n \in (9500 - ProbeSpan) .. (9500 + ProbeSpan)}

\* scenario ids whose record is taken out of the local table in InitGap
GapIds == {"S06", "S11"}

\* the two worked cases: the values the form starts with and the example of
\* the request schema, both on the default targets nrpv 140.0 / lcv 85.0
Examples ==
    {Request(100000, 500, 65000, <<140, 85>>),
     Request(120000, 850, 68000, <<140, 85>>)}

----------------------------------------------------------------------------
(* The state machine                                                       *)

\* VVIAPIClient.__init__: use_api = bool(api_url and api_key)
ClientInit ==
    /\ api_url \in Urls
    /\ api_key \in Keys
    /\ use_api = (api_url # "" /\ api_key # "")

\* "Session State Initialization" and the values the form widgets start with;
\* api_mode "unset": the session has no such key
SessionInit ==
    [api_mode |-> "unset",
     assessment_ready |-> FALSE,
     runs |-> <<>>,
     inputs_expanded |-> TRUE,
     last_result |-> NotCalled,
     visits_input |-> 500,
     net_rev_input |-> 100000,
     labor_cost_input |-> 65000,
     rev_target_input |-> 140,
     lab_target_input |-> 85]

\* the first script run of a session shows the form and no results
FirstPage == [kind |-> "form", calls |-> <<>>]

\* VVIAPIClient.__init__: st.session_state.api_mode = "API" or "Local"
ApiMode(use) == IF use THEN "API" ELSE "Local"

\* the session whose script run built the client: get_vvi_client ran
\* VVIAPIClient() in it
BuilderSession(use) == [SessionInit EXCEPT !.api_mode = ApiMode(use)]

NoResults ==
    /\ localRes = NotCalled
    /\ apiResp = NotCalled
    /\ clientRes = NotCalled
    /\ tierOut = NotCalled
    /\ memo = NotCalled
    /\ page = FirstPage

NoCalls ==
    /\ NoResults
    /\ session_state = BuilderSession(use_api)

Init ==
    /\ request \in Inputs
    /\ ClientInit
    /\ scenario_library = LocalLibrary
    /\ SCENARIO_LIBRARY = ApiLibrary
    /\ NoCalls

\* a direct call of VVIAPIClient._assess_local
AssessLocal ==
    /\ localRes' = _assess_local(request, scenario_library)
    /\ UNCHANGED <<request, api_url, api_key, use_api, scenario_library,
                   SCENARIO_LIBRARY, apiResp, clientRes, tierOut, memo,
                   session_state, page>>

\* one POST /v1/vvi/assess reaching the API process, its options among choices
PostAssess(choices) ==
    /\ \E key \in Keys, options \in choices :
          apiResp' = [kind |-> "http",
                      sent |-> [x_api_key |-> key, options |-> options],
                      response |-> post_assess(key, request, options,
                                               SCENARIO_LIBRARY)]
    /\ SCENARIO_LIBRARY' = LibraryAfterAssess(request, SCENARIO_LIBRARY)
    /\ UNCHANGED <<request, api_url, api_key, use_api, scenario_library,
                   localRes, clientRes, tierOut, memo,
                   session_state, page>>

\* the POST of a body that leaves the options out
AssessVVI == PostAssess(OptionChoices)

\* the POST of a body with an options field
AssessVVIOptions == PostAssess(OptionValues)

\* one GET /v1/vvi/scenario/{scenario_id}
GetScenario ==
    /\ \E key \in Keys, sid \in PathIds :
          apiResp' = [kind |-> "get",
                      sent |-> [x_api_key |-> key, scenario_id |-> sid],
                      response |-> get_scenario_request(key, sid,
                                                        SCENARIO_LIBRARY)]
    /\ UNCHANGED <<request, api_url, api_key, use_api, scenario_library,
                   SCENARIO_LIBRARY, localRes, clientRes, tierOut, memo,
                   session_state, page>>

\* one GET /v1/vvi/scenarios
ListScenarios ==
    /\ \E key \in Keys :
          apiResp' = [kind |-> "list",
                      sent |-> [x_api_key |-> key],
                      response |-> list_scenarios_request(key, SCENARIO_LIBRARY)]
    /\ UNCHANGED <<request, api_url, api_key, use_api, scenario_library,
                   SCENARIO_LIBRARY, localRes, clientRes, tierOut, memo,
                   session_state, page>>

\* one VVIAPIClient.assess call
ClientAssess ==
    /\ \E fault \in Faults :
          clientRes' = [kind |-> "called", fault |-> fault,
                        done |-> assess(request, fault)]
    /\ SCENARIO_LIBRARY' =
          IF use_api THEN LibraryAfterAssess(request, SCENARIO_LIBRARY)
          ELSE SCENARIO_LIBRARY
    /\ UNCHANGED <<request, api_url, api_key, use_api, scenario_library,
                   localRes, apiResp, tierOut, memo,
                   session_state, page>>

\* the calls a caller can make on the arguments of Init
Next == AssessLocal \/ AssessVVI \/ ClientAssess

Spec == Init /\ [][Next]_vars

\* the local table with one record taken out
InitGap ==
    /\ request \in Inputs
    /\ ClientInit
    /\ \E gone \in GapIds :
          scenario_library = [id \in ScenarioIds \ {gone} |-> LocalLibrary[id]]
    /\ SCENARIO_LIBRARY = ApiLibrary
    /\ NoCalls

SpecGap == InitGap /\ [][Next]_vars

\* direct calls of the two tier functions on one score
TierProbe ==
    /\ \E score \in ProbeScores :
          tierOut' = [kind |-> "called", score |-> score,
                      local |-> tier_from_score(score),
                      api |-> determine_tier(score)]
    /\ UNCHANGED <<request, api_url, api_key, use_api, scenario_library,
                   SCENARIO_LIBRARY, localRes, apiResp, clientRes, memo,
                   session_state, page>>

InitTier ==
    /\ request = Request(100, 1, 100, <<100, 100>>)
    /\ api_url = "" /\ api_key = "" /\ use_api = FALSE
    /\ scenario_library = LocalLibrary
    /\ SCENARIO_LIBRARY = ApiLibrary
    /\ NoCalls

SpecTier == InitTier /\ [][TierProbe]_vars

\* keep the calls made so far on the current arguments, once; the outcome
\* slots are cleared, so what they hold afterwards comes from later calls
Remember ==
    /\ memo = NotCalled
    /\ localRes # NotCalled \/ apiResp # NotCalled
    /\ memo' = [kind |-> "kept", request |-> request,
                local |-> localRes, api |-> apiResp]
    /\ localRes' = NotCalled
    /\ apiResp' = NotCalled
    /\ UNCHANGED <<request, api_url, api_key, use_api, scenario_library,
                   SCENARIO_LIBRARY, clientRes, tierOut,
                   session_state, page>>

\* the caller comes with other arguments: the outcome slots are cleared
NewRequest ==
    /\ \E r \in HistInputs : request' = r
    /\ request' # request
    /\ localRes' = NotCalled
    /\ apiResp' = NotCalled
    /\ UNCHANGED <<api_url, api_key, use_api, scenario_library,
                   SCENARIO_LIBRARY, clientRes, tierOut, memo,
                   session_state, page>>

InitHist ==
    /\ request \in HistInputs
    /\ api_url = "" /\ api_key = "" /\ use_api = FALSE
    /\ scenario_library = LocalLibrary
    /\ SCENARIO_LIBRARY = ApiLibrary
    /\ NoCalls

NextHist == NewRequest \/ AssessLocal \/ AssessVVI \/ Remember

SpecHist == InitHist /\ [][NextHist]_vars

\* the calls of Next on the worked cases
InitExample ==
    /\ request \in Examples
    /\ ClientInit
    /\ scenario_library = LocalLibrary
    /\ SCENARIO_LIBRARY = ApiLibrary
    /\ NoCalls

SpecExample == InitExample /\ [][Next]_vars

\* valid arguments whose scores lie at a tier threshold: rf and lf just under
\* 100 (99.96 each), rf just under 100 alone, both at 100, both far below 90
BoundaryInputs ==
    {Request(24990, 250, 25010, <<100, 100>>),
     Request(24990, 250, 100, <<100, 100>>),
     Request(100, 1, 100, <<100, 100>>),
     Request(85, 1, 120, <<100, 100>>)}

\* the calls of Next on the threshold cases
InitBoundary ==
    /\ request \in BoundaryInputs
    /\ ClientInit
    /\ scenario_library = LocalLibrary
    /\ SCENARIO_LIBRARY = ApiLibrary
    /\ NoCalls

SpecBoundary == InitBoundary /\ [][Next]_vars

\* the API process serving its three endpoints, and local assessments
InitApi ==
    /\ request \in Inputs
    /\ api_url = "" /\ api_key = "" /\ use_api = FALSE
    /\ scenario_library = LocalLibrary
    /\ SCENARIO_LIBRARY = ApiLibrary
    /\ NoCalls

NextApi == AssessVVIOptions \/ GetScenario \/ ListScenarios \/ AssessLocal

SpecApi == InitApi /\ [][NextApi]_vars

----------------------------------------------------------------------------
(* app.py: the page script.  Every interaction runs the script from the top *)
(* on the session state; st.rerun() starts it again, st.stop() ends the run *)

MaxRuns == 2

\* values a session can hold for the form's widgets.  min_value is applied by
\* the widget in the browser; the script reads what the session holds, and
\* the results section checks it again
FormVisits == {0, 1}
FormNetRevs == {0, 100}
FormLabors == {0, 100, 103}
FormTargets == {<<100, 100>>, <<0, 100>>}

\* "Read values from session state"
FormRequest(ss) ==
    Request(ss.net_rev_input, ss.visits_input, ss.labor_cost_input,
            <<ss.rev_target_input, ss.lab_target_input>>)

\* a guard that lets zeros through
InputsRejected_strict(visits, net_rev, labor) ==
    visits < 0 \/ net_rev < 0 \/ labor < 0

\* "if visits <= 0 or net_rev <= 0 or labor <= 0"
InputsRejected(visits, net_rev, labor) ==
    visits <= 0 \/ net_rev <= 0 \/ labor <= 0

\* a try block that stores whatever the call produced before it looks at it
ShowOutcome_storing_error(ss, req, outcome) ==
    IF outcome.kind = "error"
    THEN [ss |-> [ss EXCEPT !.last_result = outcome],
          page |-> [kind |-> "error", calls |-> <<req>>]]
    ELSE [ss |-> [ss EXCEPT !.last_result = outcome],
          page |-> [kind |-> "results", calls |-> <<req>>,
                    result |-> outcome.result]]

\* the try block around vvi_client.assess: the result is kept in
\* session_state.last_result; an exception is shown and the run stops
ShowOutcome(ss, req, outcome) ==
    IF outcome.kind = "error"
    THEN [ss |-> ss, page |-> [kind |-> "error", calls |-> <<req>>]]
    ELSE [ss |-> [ss EXCEPT !.last_result = outcome],
          page |-> [kind |-> "results", calls |-> <<req>>,
                    result |-> outcome.result]]

\* one run of the script on a session where the form was not just submitted:
\* the "Results Display" section.  calls lists the arguments of the
\* vvi_client.assess calls of the run.
results_display(ss, fault) ==
    IF ~ss.assessment_ready
    THEN [ss |-> ss, page |-> [kind |-> "form", calls |-> <<>>]]
    ELSE IF InputsRejected(ss.visits_input, ss.net_rev_input, ss.labor_cost_input)
    THEN [ss |-> ss, page |-> [kind |-> "warning", calls |-> <<>>]]
    ELSE ShowOutcome(ss, FormRequest(ss), assess(FormRequest(ss), fault).outcome)

\* a reset that leaves the inputs expander as it was
reset_assessment_keep_collapsed(ss) ==
    [ss EXCEPT !.assessment_ready = FALSE]

\* reset_assessment
reset_assessment(ss) ==
    [ss EXCEPT !.assessment_ready = FALSE, !.inputs_expanded = TRUE]

\* a record with the two factor scores exchanged
RunEntry_swapped(result) ==
    [VVI |-> result.scores.vvi, RF |-> result.scores.lf, LF |-> result.scores.rf,
     Scenario |-> result.scenario.id, Risk |-> result.scenario.risk_level]

\* the dict "Save to Portfolio" appends (name, period and timestamp left out)
RunEntry(result) ==
    [VVI |-> result.scores.vvi, RF |-> result.scores.rf, LF |-> result.scores.lf,
     Scenario |-> result.scenario.id, Risk |-> result.scenario.risk_level]

\* the rest of a run whose Save button was clicked
SaveAfter(shown) ==
    IF shown.page.kind = "results"
    THEN [shown EXCEPT !.ss.runs = Append(@, RunEntry(shown.page.result))]
    ELSE shown

\* the run st.rerun() starts, its calls added to those of the run before
RerunAfter(calls, ss, fault) ==
    [results_display(ss, fault) EXCEPT !.page.calls = calls \o @]

\* the rest of a run whose Clear button was clicked: runs = [], st.rerun()
ClearAfter(shown, fault) ==
    IF shown.page.kind = "results" /\ shown.ss.runs # <<>>
    THEN RerunAfter(shown.page.calls, [shown.ss EXCEPT !.runs = <<>>], fault)
    ELSE shown

\* the rest of a run whose Start New Assessment button was clicked
StartAfter(shown, fault) ==
    IF shown.page.kind = "results"
    THEN RerunAfter(shown.page.calls, reset_assessment(shown.ss), fault)
    ELSE shown

\* the session takes what a run of the script left
Leaves(shown) ==
    /\ session_state' = shown.ss
    /\ page' = shown.page
    /\ UNCHANGED <<request, api_url, api_key, use_api, scenario_library,
                   SCENARIO_LIBRARY, localRes, apiResp, clientRes, tierOut, memo>>

\* "Run Assessment": the form's values reach the session, the flags are set,
\* st.rerun(), and the run it starts shows the results section
Submit ==
    \E v \in FormVisits, n \in FormNetRevs, l \in FormLabors, t \in FormTargets,
       fault \in Faults :
        Leaves(results_display(
                 [session_state EXCEPT !.visits_input = v, !.net_rev_input = n,
                                       !.labor_cost_input = l,
                                       !.rev_target_input = t[1],
                                       !.lab_target_input = t[2],
                                       !.assessment_ready = TRUE,
                                       !.inputs_expanded = FALSE], fault))

\* an interaction that only runs the script again (file uploader, download)
Rerun ==
    \E fault \in Faults : Leaves(results_display(session_state, fault))

\* "Save to Portfolio", a button of the results
SaveToPortfolio ==
    /\ page.kind = "results"
    /\ Len(session_state.runs) < MaxRuns
    /\ \E fault \in Faults :
          Leaves(SaveAfter(results_display(session_state, fault)))

\* "Clear Portfolio", a button shown with a portfolio that is not empty
ClearPortfolio ==
    /\ page.kind = "results"
    /\ session_state.runs # <<>>
    /\ \E fault \in Faults, again \in Faults :
          Leaves(ClearAfter(results_display(session_state, fault), again))

\* "Start New Assessment", a button of the results
StartNewAssessment ==
    /\ page.kind = "results"
    /\ \E fault \in Faults, again \in Faults :
          Leaves(StartAfter(results_display(session_state, fault), again))

\* a browser session opens the page.  get_vvi_client is @st.cache_data(ttl=60):
\* the session either runs VVIAPIClient() itself or, within 60 seconds of
\* another session's run, gets that client from the cache, and then
\* __init__ does not run in it
InitUI ==
    /\ request = Request(100000, 500, 65000, <<140, 85>>)
    /\ ClientInit
    /\ scenario_library = LocalLibrary
    /\ SCENARIO_LIBRARY = ApiLibrary
    /\ NoResults
    /\ session_state \in {BuilderSession(use_api), SessionInit}

NextUI ==
    Submit \/ Rerun \/ SaveToPortfolio \/ ClearPortfolio \/ StartNewAssessment

SpecUI == InitUI /\ [][NextUI]_vars

\* a session of the page and direct calls of the client it uses
NextSession == NextUI \/ ClientAssess

SpecSession == InitUI /\ [][NextSession]_vars

----------------------------------------------------------------------------
(* Properties                                                              *)

LocalCalled == localRes # NotCalled
LocalOk == localRes.kind = "ok"
ApiCalled == apiResp.kind = "http"
ApiKeyOk == ApiCalled /\ apiResp.sent.x_api_key \in valid_keys
ApiOk == ApiCalled /\ apiResp.response.status = 200
ClientCalled == clientRes.kind = "called"

TierOrder == <<"Excellent", "Stable", "At Risk", "Critical">>
TierIndex(t) == CHOOSE i \in 0 .. 3 : TierOrder[i + 1] = t
RowMajorId(rf_tier, lf_tier) == IdOrder[4 * TierIndex(rf_tier) + TierIndex(lf_tier) + 1]

\* C1: in the local and in the API classifier the pair with rf index i and
\* lf index j maps to S(4i+j+1); the map is total over the 16 pairs and onto
\* S01..S16, and every result carries the id of its own pair of tiers.
C1_RowMajorScenarioMap ==
    /\ \A a \in Tiers, b \in Tiers :
          /\ scenario_map(a, b) = RowMajorId(a, b)
          /\ get_scenario_id(a, b) = RowMajorId(a, b)
    /\ {scenario_map(a, b) : a \in Tiers, b \in Tiers} = ScenarioIds
    /\ {get_scenario_id(a, b) : a \in Tiers, b \in Tiers} = ScenarioIds
    /\ LocalOk =>
          localRes.result.scenario.id =
              RowMajorId(localRes.result.tiers.rf, localRes.result.tiers.lf)
    /\ ApiOk =>
          apiResp.response.body.scenario.id =
              RowMajorId(apiResp.response.body.tiers.rf,
                         apiResp.response.body.tiers.lf)

C1_Witness ==
    /\ LocalOk /\ ApiOk
    /\ localRes.result.tiers.rf = "At Risk" /\ localRes.result.tiers.lf = "Stable"
    /\ localRes.result.scenario.id = "S10"
    /\ apiResp.response.body.tiers.rf = "At Risk"
    /\ apiResp.response.body.tiers.lf = "Stable"
    /\ apiResp.response.body.scenario.id = "S10"

\* the step function of the claim, on a score n/d
StepTier(score) ==
    CASE score[1] >= 100 * score[2] -> "Excellent"
      [] score[1] >= 95 * score[2] /\ score[1] < 100 * score[2] -> "Stable"
      [] score[1] >= 90 * score[2] /\ score[1] < 95 * score[2] -> "At Risk"
      [] score[1] < 90 * score[2] -> "Critical"

\* C2: tier_from_score and determine_tier both return Excellent from 100,
\* Stable from 95, At Risk from 90 and Critical below, thresholds inclusive;
\* 100.0, 99.99, 95.0, 94.99, 90.0, 89.99 give Excellent, Stable, Stable,
\* At Risk, At Risk, Critical; the two functions agree on every score.
C2_TierStepFunction ==
    tierOut.kind = "called" =>
        /\ tierOut.local = StepTier(tierOut.score)
        /\ tierOut.api = StepTier(tierOut.score)
        /\ tierOut.local = tierOut.api
        /\ tierOut.score = Rat(10000, 100) => tierOut.local = "Excellent"
        /\ tierOut.score = Rat(9999, 100) => tierOut.local = "Stable"
        /\ tierOut.score = Rat(9500, 100) => tierOut.local = "Stable"
        /\ tierOut.score = Rat(9499, 100) => tierOut.local = "At Risk"
        /\ tierOut.score = Rat(9000, 100) => tierOut.local = "At Risk"
        /\ tierOut.score = Rat(8999, 100) => tierOut.local = "Critical"

C2_Witness ==
    /\ tierOut.kind = "called"
    /\ tierOut.score = Rat(9500, 100)
    /\ tierOut.local = "Stable"
    /\ tierOut.api = "Stable"

\* C3: for every valid input the local path and the API path give the same
\* scores, the same tiers and the same scenario id.
C3_LocalAndApiAgree ==
    (LocalOk /\ ApiOk /\ RequestValid(request)) =>
        /\ localRes.result.scores = apiResp.response.body.scores
        /\ localRes.result.tiers = apiResp.response.body.tiers
        /\ localRes.result.scenario.id = apiResp.response.body.scenario.id

\* the remote call of the last assess failed: the transport failed or the
\* server answered with an error status
RemoteFailed ==
    \/ clientRes.fault # "none"
    \/ post_assess(api_key, request, Dict([include_actions |-> TRUE]),
                   SCENARIO_LIBRARY).status >= 400

RemoteErrors == {"ConnectionError", "Timeout", "HTTPError"}

\* C4: with the API enabled, a failed remote call is not propagated: the
\* caller gets what the local computation gives on the same arguments, a
\* result tagged "local" when they are valid; a result is tagged "api" only
\* when the remote call succeeded.
C4_FallbackToLocal ==
    (ClientCalled /\ use_api) =>
        /\ RemoteFailed =>
              /\ clientRes.done.calls = <<"api", "local">>
              /\ clientRes.done.outcome = _assess_local(request, scenario_library)
              /\ RequestValid(request) =>
                    /\ clientRes.done.outcome.kind = "ok"
                    /\ clientRes.done.outcome.result.source = "local"
        /\ clientRes.done.outcome.kind = "error" =>
              clientRes.done.outcome.error \notin RemoteErrors
        /\ (clientRes.done.outcome.kind = "ok"
              /\ clientRes.done.outcome.result.source = "api") => ~RemoteFailed

C4_Witness ==
    /\ ClientCalled /\ use_api
    /\ clientRes.fault = "Timeout"
    /\ RequestValid(request)
    /\ clientRes.done.outcome.kind = "ok"
    /\ clientRes.done.outcome.result.source = "local"
    /\ clientRes.done.outcome.result.scenario.id = "S06"

\* the content of a result is that of the S16 record of the table
UsesS16(scenario, actions, expected_impact, library) ==
    /\ scenario.name = library["S16"].name
    /\ scenario.risk_level = library["S16"].risk_level
    /\ scenario.focus_areas = library["S16"].content
    /\ actions = library["S16"].content
    /\ expected_impact = library["S16"].content

ZeroInput(req) ==
    req.visit_volume = 0 \/ req.net_revenue = 0 \/ req.labor_cost = 0

\* C6: for visit_volume = 0, net_revenue = 0 or lcv = 0 the computation ends
\* in an error; no response is returned, so none with a substituted score.
C6_ZeroGuard ==
    /\ (LocalCalled /\ ZeroInput(request)) => localRes.kind = "error"
    /\ (ApiKeyOk /\ ZeroInput(request)) => apiResp.response.status >= 400
    /\ ApiOk => ~RIsZero(apiResp.response.body.metrics.lcv)

BadTarget(req) == req.nrpv_target <= 0 \/ req.lcv_target <= 0

\* C7: for nrpv_target <= 0 or lcv_target <= 0 the classifier fails with an
\* error; it returns no scores.
C7_TargetGuard ==
    /\ (LocalCalled /\ BadTarget(request)) => localRes.kind = "error"
    /\ (ApiKeyOk /\ BadTarget(request)) => apiResp.response.status >= 400

\* the scores of the claim, from the unrounded per-visit metrics
ExactNrpv(req) == Rat(req.net_revenue, req.visit_volume)
ExactLcv(req) == Rat(req.labor_cost, req.visit_volume)
ExactScores(req) ==
    [vvi |-> round_py(
                RMul(RInt(100),
                     RDiv(RMul(ExactNrpv(req), RInt(req.lcv_target)),
                          RMul(ExactLcv(req), RInt(req.nrpv_target)))), 1),
     rf |-> round_py(
                RDiv(RMul(RInt(100), ExactNrpv(req)), RInt(req.nrpv_target)), 1),
     lf |-> round_py(
                RDiv(RInt(100 * req.lcv_target), ExactLcv(req)), 1)]

\* C8: for all valid inputs the reported vvi, rf and lf are
\* 100*(nrpv*lcv_target)/(lcv*nrpv_target), 100*nrpv/nrpv_target and
\* 100*lcv_target/lcv, rounded to 1 decimal place, with nrpv and lcv the
\* exact quotients by visit_volume.
C8_ScoreFormula ==
    RequestValid(request) =>
        /\ LocalOk => localRes.result.scores = ExactScores(request)
        /\ ApiOk => apiResp.response.body.scores = ExactScores(request)

\* reported = a/b is a multiple of 10^-digits within half a unit of it of n/d
WithinHalfUnit(reported, n, d, digits) ==
    /\ Pow10(digits) % reported[2] = 0
    /\ 2 * Pow10(digits) * Abs(reported[1] * d - n * reported[2])
          <= reported[2] * Abs(d)

MetricsRounded(req, metrics) ==
    /\ WithinHalfUnit(metrics.nrpv, req.net_revenue, req.visit_volume, 2)
    /\ WithinHalfUnit(metrics.lcv, req.labor_cost, req.visit_volume, 2)
    /\ WithinHalfUnit(metrics.swb_pct, 100 * req.labor_cost, req.net_revenue, 1)

\* C9: the reported nrpv and lcv are net_revenue/visit_volume and
\* labor_cost/visit_volume rounded to 2 decimal places and swb_pct is
\* 100*labor_cost/net_revenue rounded to 1: each differs from the exact
\* quotient by at most half a unit of its last decimal place.
C9_MetricsRounded ==
    /\ LocalOk => MetricsRounded(request, localRes.result.metrics)
    /\ ApiOk => MetricsRounded(request, apiResp.response.body.metrics)

C9_Witness ==
    /\ LocalOk /\ ApiOk
    /\ request.net_revenue = 92 /\ request.visit_volume = 3
    /\ localRes.result.metrics.nrpv = Rat(3067, 100)
    /\ apiResp.response.body.metrics.nrpv = Rat(3067, 100)

\* C10: two calls with the same inputs, whatever calls were made in between,
\* return the same result (calculated_at aside): the outcome of a call
\* equals the outcome kept from the earlier call on these inputs.
C10_SameInputsSameResult ==
    (memo.kind = "kept" /\ memo.request = request) =>
        /\ (LocalCalled /\ memo.local # NotCalled) => localRes = memo.local
        /\ (ApiCalled /\ memo.api # NotCalled
              /\ apiResp.sent = memo.api.sent) =>
                 apiResp.response = memo.api.response

C10_Witness ==
    /\ memo.kind = "kept" /\ memo.request = request
    /\ LocalOk /\ memo.local = localRes
    /\ ApiOk /\ memo.api # NotCalled /\ memo.api.response = apiResp.response
    /\ apiResp.response.body.scenario.id = "S16"

\* the result of the last assess call, when it returned one
ClientOk == ClientCalled /\ clientRes.done.outcome.kind = "ok"

Example1 == Request(100000, 500, 65000, <<140, 85>>)
Example2 == Request(120000, 850, 68000, <<140, 85>>)

\* the values of the first worked case, in a result's fields
IsExample1(metrics, scores, tiers, scenario) ==
    /\ metrics = [nrpv |-> RInt(200), lcv |-> RInt(130), swb_pct |-> RInt(65)]
    /\ scores.rf = Rat(1429, 10)
    /\ scores.lf = Rat(654, 10)
    /\ scores.vvi = Rat(934, 10)
    /\ tiers.rf = "Excellent"
    /\ tiers.lf = "Critical"
    /\ scenario.id = "S04"

\* C11: for net_revenue=100000, visit_volume=500, labor_cost=65000 and
\* targets 140/85 every result, local, API or through the client, has
\* nrpv=200.00, lcv=130.00, swb_pct=65.0, rf=142.9, lf=65.4, vvi=93.4,
\* rf tier Excellent, lf tier Critical and scenario id S04.
C11_Example1 ==
    request = Example1 =>
        /\ LocalCalled =>
              /\ LocalOk
              /\ IsExample1(localRes.result.metrics, localRes.result.scores,
                            localRes.result.tiers, localRes.result.scenario)
        /\ ApiKeyOk =>
              /\ ApiOk
              /\ IsExample1(apiResp.response.body.metrics,
                            apiResp.response.body.scores,
                            apiResp.response.body.tiers,
                            apiResp.response.body.scenario)
        /\ ClientCalled =>
              /\ ClientOk
              /\ IsExample1(clientRes.done.outcome.result.metrics,
                            clientRes.done.outcome.result.scores,
                            clientRes.done.outcome.result.tiers,
                            clientRes.done.outcome.result.scenario)

C11_Witness ==
    /\ request = Example1
    /\ LocalOk /\ ApiOk /\ ClientOk
    /\ localRes.result.scores.vvi = Rat(934, 10)
    /\ apiResp.response.body.scenario.id = "S04"
    /\ clientRes.done.outcome.result.source = "api"

\* the values of the second worked case, with the lf score it names
IsExample2(metrics, scores, tiers, scenario, lf) ==
    /\ metrics.nrpv = Rat(14118, 100)
    /\ metrics.lcv = RInt(80)
    /\ scores.rf = Rat(1008, 10)
    /\ tiers.rf = "Excellent"
    /\ scores.lf = lf
    /\ tiers.lf = "Excellent"
    /\ scenario.id = "S01"

\* C12 as stated: for net_revenue=120000, visit_volume=850, labor_cost=68000
\* and targets 140/85 the result has nrpv=141.18, lcv=80.00, rf=100.8 with
\* tier Excellent, lf=106.25 with tier Excellent and scenario id S01.
C12_Example2 ==
    request = Example2 =>
        /\ LocalOk =>
              IsExample2(localRes.result.metrics, localRes.result.scores,
                         localRes.result.tiers, localRes.result.scenario,
                         Rat(10625, 100))
        /\ ApiOk =>
              IsExample2(apiResp.response.body.metrics,
                         apiResp.response.body.scores,
                         apiResp.response.body.tiers,
                         apiResp.response.body.scenario, Rat(10625, 100))

\* C12 amended: the same case has nrpv=141.18, lcv=80.00, rf=100.8 with tier
\* Excellent, lf=106.2 (106.25 rounded to 1 decimal place, the half going to
\* the even digit) with tier Excellent and scenario id S01.
C12_Example2Rounded ==
    request = Example2 =>
        /\ LocalCalled =>
              /\ LocalOk
              /\ IsExample2(localRes.result.metrics, localRes.result.scores,
                            localRes.result.tiers, localRes.result.scenario,
                            Rat(1062, 10))
        /\ ApiKeyOk =>
              /\ ApiOk
              /\ IsExample2(apiResp.response.body.metrics,
                            apiResp.response.body.scores,
                            apiResp.response.body.tiers,
                            apiResp.response.body.scenario, Rat(1062, 10))

C12_Witness ==
    /\ request = Example2
    /\ LocalOk /\ ApiOk
    /\ localRes.result.scores.lf = Rat(1062, 10)
    /\ apiResp.response.body.scores.lf = Rat(1062, 10)
    /\ apiResp.response.body.scenario.id = "S01"

\* the assessments at hand: the kept ones and the latest ones, local and API
Assessments ==
    {[scores |-> x.result.scores, tiers |-> x.result.tiers,
      id |-> x.result.scenario.id] :
        x \in {y \in {localRes} \cup (IF memo.kind = "kept" THEN {memo.local} ELSE {}) :
                  y.kind = "ok"}}
    \cup
    {[scores |-> x.response.body.scores, tiers |-> x.response.body.tiers,
      id |-> x.response.body.scenario.id] :
        x \in {y \in {apiResp} \cup (IF memo.kind = "kept" THEN {memo.api} ELSE {}) :
                  y.kind = "http" /\ y.response.status = 200}}

\* C13: two assessments with the same rf tier and the same lf tier have the
\* same scenario id, whatever their vvi scores and vvi tiers are.
C13_VviTierNotInSelection ==
    \A a \in Assessments, b \in Assessments :
        (a.tiers.rf = b.tiers.rf /\ a.tiers.lf = b.tiers.lf) => a.id = b.id

C13_Witness ==
    \E a \in Assessments, b \in Assessments :
        /\ a.tiers.rf = b.tiers.rf /\ a.tiers.lf = b.tiers.lf
        /\ a.tiers.vvi = "Excellent" /\ b.tiers.vvi = "Stable"
        /\ a.scores.vvi # b.scores.vvi
        /\ a.id = "S02" /\ b.id = "S02"

\* a response of one of the three endpoints is at hand
Answered == apiResp.kind \in {"http", "get", "list"}

\* C14: every non-2xx response of the API (invalid key, body validation
\* failure, unknown scenario id, internal error) has a body of exactly the
\* fields error, status_code and timestamp.
C14_ErrorBodyShape ==
    (Answered /\ (apiResp.response.status < 200 \/ apiResp.response.status >= 300)) =>
        /\ DOMAIN apiResp.response.body = {"error", "status_code", "timestamp"}
        /\ apiResp.response.body.status_code = apiResp.response.status

\* C15: on each of the three endpoints a request whose X-API-Key is missing
\* or not a configured key gets 401 and the error body, whatever else it
\* carries: no validation result, no assessment, no scenario content.
C15_KeyCheckedFirst ==
    (Answered /\ apiResp.sent.x_api_key \notin valid_keys) =>
        apiResp.response = HttpError(401, "Invalid API key")

C15_Witness ==
    /\ apiResp.kind = "http"
    /\ apiResp.sent.x_api_key = "stale_key"
    /\ ~RequestValid(request)
    /\ apiResp.response.status = 401

\* the response to the same request with the options left out
WithDefaultOptions ==
    post_assess(apiResp.sent.x_api_key, request, DefaultOptions, SCENARIO_LIBRARY)

\* the options at hand ask for the actions: a dict that leaves
\* include_actions out or sets it
AsksForActions(options) ==
    \/ options.is_none
    \/ "include_actions" \notin DOMAIN options.items
    \/ options.items["include_actions"]

\* C16: include_actions defaults to true. With a valid key and body the
\* request succeeds for every accepted value of options; the response has
\* actions and expected_impact when options are left out, leave
\* include_actions out or set it, and equals the default response then;
\* with include_actions false both are absent and the other fields are those
\* of the default response.
C16_IncludeActions ==
    (ApiKeyOk /\ RequestValid(request)) =>
        /\ apiResp.response.status = 200
        /\ AsksForActions(apiResp.sent.options) =>
              /\ apiResp.response = WithDefaultOptions
              /\ apiResp.response.body.actions # "None"
              /\ apiResp.response.body.expected_impact # "None"
        /\ ~AsksForActions(apiResp.sent.options) =>
              /\ apiResp.response.body.actions = "None"
              /\ apiResp.response.body.expected_impact = "None"
              /\ [apiResp.response.body EXCEPT
                    !.actions = WithDefaultOptions.body.actions,
                    !.expected_impact = WithDefaultOptions.body.expected_impact]
                 = WithDefaultOptions.body

\* the number of computations of one kind in the calls of an assess
CallCount(calls, kind) == Cardinality({i \in DOMAIN calls : calls[i] = kind})

\* C17: in one assess call the remote service is called at most once and the
\* local computation runs at most once; the local one runs only with the API
\* disabled or after the one remote attempt failed, and no remote call
\* follows a local computation.
C17_SingleFallback ==
    ClientCalled =>
        /\ CallCount(clientRes.done.calls, "api") <= 1
        /\ CallCount(clientRes.done.calls, "local") <= 1
        /\ CallCount(clientRes.done.calls, "local") = 1 =>
              \/ ~use_api /\ clientRes.done.calls = <<"local">>
              \/ use_api /\ RemoteFailed /\ clientRes.done.calls = <<"api", "local">>
        /\ \A i \in DOMAIN clientRes.done.calls, j \in DOMAIN clientRes.done.calls :
              (clientRes.done.calls[i] = "local" /\ clientRes.done.calls[j] = "api")
                 => j < i
        /\ use_api => clientRes.done.calls[1] = "api"

C17_Witness ==
    /\ ClientCalled /\ use_api
    /\ clientRes.fault = "none"
    /\ api_key = "stale_key"
    /\ clientRes.done.calls = <<"api", "local">>

\* C18: no request to assess, get_scenario or list_scenarios and no local
\* assessment changes the content tables: every step leaves the entries and
\* the key set of SCENARIO_LIBRARY and of scenario_library as they were.
C18_TableNeverWritten ==
    [][/\ SCENARIO_LIBRARY' = SCENARIO_LIBRARY
       /\ scenario_library' = scenario_library]_vars

C18_Witness ==
    /\ apiResp.kind = "http" /\ apiResp.response.status = 200
    /\ apiResp.response.body.scenario.id = "S06"
    /\ LocalOk
    /\ SCENARIO_LIBRARY = ApiLibrary
    /\ DOMAIN SCENARIO_LIBRARY = {"S01", "S16"}
    /\ scenario_library = LocalLibrary

\* the widgets of a session hold a value that is not positive
NonPositiveInputs(ss) ==
    ss.visits_input <= 0 \/ ss.net_rev_input <= 0 \/ ss.labor_cost_input <= 0

\* C19: in every run of the results section vvi_client.assess is called only
\* with visit_volume > 0, net_revenue > 0 and labor_cost > 0; a run on values
\* that are not all positive shows the warning, calls nothing and leaves
\* last_result and the portfolio as they were.
C19_UiRejectsNonPositive ==
    [][/\ \A i \in DOMAIN page'.calls :
             /\ page'.calls[i].visit_volume > 0
             /\ page'.calls[i].net_revenue > 0
             /\ page'.calls[i].labor_cost > 0
       /\ (session_state'.assessment_ready /\ NonPositiveInputs(session_state')) =>
             /\ page'.kind = "warning"
             /\ page'.calls = <<>>
             /\ session_state'.last_result = session_state.last_result
             /\ session_state'.runs = session_state.runs]_vars

C19_Witness ==
    /\ page.kind = "warning"
    /\ session_state.assessment_ready
    /\ session_state.visits_input = 0
    /\ session_state.last_result.kind = "ok"
    /\ Len(session_state.runs) = 1

\* vvi = rf * lf / 100 in a record of unrounded scores (the division is made
\* first, which keeps the exact product within TLC's integers)
IsNormalizedProduct(scores) ==
    scores.vvi = RMul(RDiv(scores.rf, RInt(100)), scores.lf)

\* the unrounded scores behind a result of each path on req
LocalUnrounded(req) == LocalScores(req, LocalMetrics(req))
ApiUnrounded(req) ==
    calculate_scores_unrounded(
        calculate_metrics(req.net_revenue, req.visit_volume, req.labor_cost).result.nrpv,
        calculate_metrics(req.net_revenue, req.visit_volume, req.labor_cost).result.lcv,
        req.nrpv_target, req.lcv_target).result

\* C20: for all positive inputs the unrounded vvi score that _assess_local
\* and calculate_scores compute equals rf_score * lf_score / 100.
C20_VviIsProduct ==
    RequestValid(request) =>
        /\ LocalOk => IsNormalizedProduct(LocalUnrounded(request))
        /\ ApiOk => IsNormalizedProduct(ApiUnrounded(request))

C20_Witness ==
    /\ LocalOk /\ ApiOk
    /\ request = Request(92, 3, 103, <<140, 85>>)
    /\ IsNormalizedProduct(LocalUnrounded(request))
    /\ LocalUnrounded(request).vvi # LocalUnrounded(request).rf
    /\ localRes.result.scores.vvi = round_py(LocalUnrounded(request).vvi, 1)
    /\ apiResp.response.body.scores.vvi = round_py(ApiUnrounded(request).vvi, 1)

\* C21: the local table has a record for each of S01..S16, so the lookup at
\* the end of _assess_local finds one for every pair of tiers and no call
\* ends in the "Scenario ... not found" ValueError.
C21_LocalLibraryComplete ==
    /\ DOMAIN scenario_library = ScenarioIds
    /\ \A a \in Tiers, b \in Tiers :
          local_lookup(scenario_library, scenario_map(a, b)).kind = "ok"
    /\ (LocalCalled /\ localRes.kind = "error") => localRes.error # "ValueError"
    /\ (ClientCalled /\ clientRes.done.outcome.kind = "error") =>
          clientRes.done.outcome.error # "ValueError"

C21_Witness ==
    /\ LocalOk
    /\ localRes.result.scenario.id = "S11"
    /\ localRes.result.scenario.name = "At Risk Revenue / At Risk Labor"
    /\ ClientOk
    /\ clientRes.done.outcome.result.source = "local"
    /\ clientRes.done.outcome.result.scenario.id = "S11"

\* C22: with a valid key, GET /v1/vvi/scenario/{scenario_id} answers 200 with
\* the record and the id echoed for every id of S01..S16 and a 404 error
\* without a record for any other id; list_scenarios reports as
\* total_scenarios the number of summaries it returns.
C22_ScenarioEndpoints ==
    /\ (apiResp.kind = "get" /\ apiResp.sent.x_api_key \in valid_keys) =>
          IF apiResp.sent.scenario_id \in ScenarioIds
          THEN /\ apiResp.response.status = 200
               /\ apiResp.response.body.scenario_id = apiResp.sent.scenario_id
               /\ {"name", "risk_level"} \subseteq DOMAIN apiResp.response.body
          ELSE /\ apiResp.response.status = 404
               /\ "name" \notin DOMAIN apiResp.response.body
    /\ (apiResp.kind = "list" /\ apiResp.sent.x_api_key \in valid_keys) =>
          /\ apiResp.response.status = 200
          /\ apiResp.response.body.total_scenarios =
                Len(apiResp.response.body.scenarios)

\* each tier of a result is the tier of the score it reports under that name
TiersOfReportedScores(scores, tiers) ==
    /\ tiers.vvi = StepTier(scores.vvi)
    /\ tiers.rf = StepTier(scores.rf)
    /\ tiers.lf = StepTier(scores.lf)

\* C23: in every returned result, local and API, tiers.vvi, tiers.rf and
\* tiers.lf are the tiers of the 1-decimal scores.vvi, scores.rf and scores.lf
\* of the same result.
C23_TierOfReportedScore ==
    /\ LocalOk =>
          TiersOfReportedScores(localRes.result.scores, localRes.result.tiers)
    /\ ApiOk =>
          TiersOfReportedScores(apiResp.response.body.scores,
                                apiResp.response.body.tiers)

\* the vvi tier follows the factor tiers where both are at the same extreme
ExtremesAgree(tiers) ==
    /\ (tiers.rf = "Excellent" /\ tiers.lf = "Excellent") => tiers.vvi = "Excellent"
    /\ (tiers.rf = "Critical" /\ tiers.lf = "Critical") => tiers.vvi = "Critical"

\* C24: in every returned result, local and API, the vvi tier is Excellent
\* when the rf and lf tiers are both Excellent and Critical when they are
\* both Critical.
C24_ExtremesConsistent ==
    /\ LocalOk => ExtremesAgree(localRes.result.tiers)
    /\ ApiOk => ExtremesAgree(apiResp.response.body.tiers)

\* the name the content tables give the scenario of a pair of tiers
PairName(rf_tier, lf_tier) == rf_tier \o " Revenue / " \o lf_tier \o " Labor"

\* the content of a result is that of the record the table holds under its id
ContentOfId(tiers, scenario, actions, expected_impact, library) ==
    /\ scenario.name = PairName(tiers.rf, tiers.lf)
    /\ scenario.id \in DOMAIN library
    /\ scenario.name = library[scenario.id].name
    /\ scenario.risk_level = library[scenario.id].risk_level
    /\ scenario.focus_areas = library[scenario.id].content
    /\ actions = library[scenario.id].content
    /\ expected_impact = library[scenario.id].content

\* C25: in every returned result, local and API, scenario.name is
\* "<rf_tier> Revenue / <lf_tier> Labor" for the result's own tiers, and name,
\* risk_level, focus_areas, actions and expected_impact are those of the
\* record stored under scenario.id.
C25_ContentBelongsToId ==
    /\ LocalOk =>
          ContentOfId(localRes.result.tiers, localRes.result.scenario,
                      localRes.result.actions, localRes.result.expected_impact,
                      scenario_library)
    /\ ApiOk =>
          ContentOfId(apiResp.response.body.tiers, apiResp.response.body.scenario,
                      apiResp.response.body.actions,
                      apiResp.response.body.expected_impact, SCENARIO_LIBRARY)

\* C26: the client attempts the remote call exactly when an API URL and an
\* API key are both configured; with either missing every assess call
\* computes locally, makes no remote call and returns source "local"; the
\* session's api_mode is "API" exactly when use_api is true.
C26_UseApiIffConfigured ==
    /\ use_api = (api_url # "" /\ api_key # "")
    /\ ClientCalled =>
          /\ (CallCount(clientRes.done.calls, "api") > 0) = use_api
          /\ ~use_api =>
                /\ clientRes.done.calls = <<"local">>
                /\ clientRes.done.outcome.kind = "ok" =>
                      clientRes.done.outcome.result.source = "local"
    /\ (page.kind = "results" /\ ~use_api) => page.result.source = "local"
    /\ (session_state.api_mode = "API") = use_api

\* C27: after session initialisation and any sequence of submissions and
\* Start New Assessment resets, inputs_expanded is true exactly when
\* assessment_ready is false.
C27_ExpandedIffNotReady ==
    session_state.inputs_expanded = ~session_state.assessment_ready

\* a session back on the form after a submission and a reset
C27_Witness ==
    /\ page.kind = "form"
    /\ Len(page.calls) >= 1
    /\ ~session_state.assessment_ready
    /\ session_state.inputs_expanded
    /\ session_state.last_result.kind = "ok"

\* C28: the portfolio changes only by Save to Portfolio, which appends exactly
\* one record whose VVI, RF, LF, Scenario and Risk are those of the result the
\* run displays, and by Clear Portfolio, which empties it; a submission, the
\* computation of an assessment and a reset leave it unchanged.
C28_RunsOnlySaveAndClear ==
    [][/\ session_state'.runs # session_state.runs =>
            \/ /\ page.kind = "results"
               /\ page'.kind = "results"
               /\ session_state'.runs =
                     Append(session_state.runs,
                            [VVI |-> page'.result.scores.vvi,
                             RF |-> page'.result.scores.rf,
                             LF |-> page'.result.scores.lf,
                             Scenario |-> page'.result.scenario.id,
                             Risk |-> page'.result.scenario.risk_level])
            \/ /\ page.kind = "results"
               /\ session_state.runs # <<>>
               /\ session_state'.runs = <<>>
       /\ (session_state'.assessment_ready # session_state.assessment_ready
            \/ page.kind # "results") =>
            session_state'.runs = session_state.runs]_vars

\* a portfolio of two records, the second saved from the displayed result
C28_Witness ==
    /\ page.kind = "results"
    /\ Len(session_state.runs) = 2
    /\ session_state.runs[2].VVI = page.result.scores.vvi
    /\ session_state.runs[2].RF # session_state.runs[2].LF
    /\ session_state.runs[2].Scenario = page.result.scenario.id

\* C29: when vvi_client.assess raises, the error is shown and the run stops:
\* last_result keeps the value it had, no results are displayed, Save to
\* Portfolio cannot be reached and no portfolio entry comes from the failed
\* assessment.
C29_FailedRunKeepsSession ==
    [][/\ page'.kind = "error" =>
            /\ session_state'.last_result = session_state.last_result
            /\ "result" \notin DOMAIN page'
            /\ Len(session_state'.runs) <= Len(session_state.runs)
       /\ page.kind = "error" =>
            Len(session_state'.runs) <= Len(session_state.runs)
       /\ session_state'.last_result.kind # "error"]_vars

\* an error shown in a session that holds the result of an earlier assessment
C29_Witness ==
    /\ page.kind = "error"
    /\ Len(page.calls) >= 1
    /\ session_state.last_result.kind = "ok"
    /\ session_state.assessment_ready

\* C30: every result VVIAPIClient.assess returns has metrics {nrpv, lcv,
\* swb_pct}, scores {vvi, rf, lf}, tiers {vvi, rf, lf}, scenario {id, name,
\* risk_level, focus_areas} and a source that is "api" or "local".
C30_StandardizedResult ==
    ClientOk =>
        /\ {"metrics", "scores", "tiers", "scenario", "source"}
              \subseteq DOMAIN clientRes.done.outcome.result
        /\ {"nrpv", "lcv", "swb_pct"}
              \subseteq DOMAIN clientRes.done.outcome.result.metrics
        /\ DOMAIN clientRes.done.outcome.result.scores = {"vvi", "rf", "lf"}
        /\ DOMAIN clientRes.done.outcome.result.tiers = {"vvi", "rf", "lf"}
        /\ {"id", "name", "risk_level", "focus_areas"}
              \subseteq DOMAIN clientRes.done.outcome.result.scenario
        /\ clientRes.done.outcome.result.source \in {"api", "local"}
        /\ (clientRes.done.outcome.result.source = "api") =
              (clientRes.done.calls = <<"api">>)

\* a result computed locally after the remote call failed
C30_Witness ==
    /\ ClientOk
    /\ clientRes.done.calls = <<"api", "local">>
    /\ clientRes.done.outcome.result.source = "local"
    /\ clientRes.fault = "ConnectionError"
    /\ clientRes.done.outcome.result.tiers.vvi \in Tiers

====
